---- MODULE Spec2Model ----
(***************************************************************************)
(* A model of win-tts-api (src/main.go): an MQTT subscriber that reads the *)
(* text of every message aloud.  main.go holds two variants of the program *)
(*                                                                         *)
(*   "auto"     lines 1-297:   config.json is auto-detected, the handler f *)
(*              dispatches speakText on a goroutine with a 30 s timeout,   *)
(*              main waits 10 s for the connect and subscribe tokens and   *)
(*              registers OnConnect / ConnectionLost handlers;             *)
(*   "explicit" lines 299-501: the file is named by --config, flags        *)
(*              override it, the handler f calls speakText inline, main    *)
(*              waits on the tokens with token.Wait().                     *)
(*                                                                         *)
(* Strings are sequences of runs [c |-> atom, n |-> count]: the atom       *)
(* repeated n times.  This keeps the program's limit of 500 at its real    *)
(* value while the sequences stay short.                                   *)
(***************************************************************************)
EXTENDS Integers, Sequences, FiniteSets, TLC

VARIABLES
    variant,      \* which main.go variant runs: "auto" or "explicit"
    flags,        \* the parsed command line (pflag variables of main)
    file,         \* the configuration file on disk, as main will find it
    cfg,          \* main's cfg *Config
    pc,           \* main's position
    exitBy,       \* which statement ended the process ("" while it runs)
    conn,         \* the transport's connection: "none", "up", "lost"
    subscribed,   \* the broker holds a subscription of the topic for us
    token,        \* main's current token: "none", "pending", "ok", "err"
    mainTimer,    \* seconds left of main's token.WaitTimeout (0: elapsed)
    hooks,        \* the OnConnect handler runs, one per connection epoch
    epoch,        \* number of reconnects so far
    hist,         \* history: requests sent to the transport, startup done
    pool,         \* the payloads publishers may send
    budget,       \* how many messages publishers will still send
    msgs,         \* history: every published message, by id
    inbox,        \* ids of messages received and not yet handed to f
    cb,           \* the transport's callback goroutine running f
    tasks,        \* the dispatch goroutines of f (auto variant), by id
    handled,      \* history: what f did with each message
    spoken        \* history: the calls of speakText, <<id, text>>

vars == <<variant, flags, file, cfg, pc, exitBy, conn, subscribed, token,
          mainTimer, hooks, epoch, hist, pool, budget, msgs, inbox, cb,
          tasks, handled, spoken>>

(***************************************************************************)
(* Bounds of the model.                                                    *)
(***************************************************************************)
MaxMsgs == 2       \* messages published in one behaviour
MaxLoss == 1       \* connection losses in one behaviour
MaxStrRuns == 2    \* runs in a generated text
TickStep == 15     \* seconds that pass in one step of the clock

(***************************************************************************)
(* Program constants.                                                      *)
(***************************************************************************)
MaxTextLen == 500        \* len(text) > 500
SpeakTimeout == 30       \* context.WithTimeout(..., 30*time.Second)
ConnectWait == 10        \* token.WaitTimeout(10 * time.Second)
ResubscribeWait == 5     \* token.WaitTimeout(5 * time.Second)

(***************************************************************************)
(* Text.  Atoms: "a" an ASCII letter, "zh" a CJK character (3 bytes of     *)
(* UTF-8), "sp" a space, "text" and "TEXT" the four letters of the key in  *)
(* lower and upper case, "null" the JSON literal, "1" a digit, and the     *)
(* JSON punctuation.                                                       *)
(***************************************************************************)
\* The letters of an atom that stands for a whole word.
Letters(c) == CASE c \in {"text", "TEXT", "null"} -> 4
                [] c = "topic" -> 5
                [] c = "broker" -> 6
                [] c \in {"username", "password", "cfg.json"} -> 8
                [] c = "home/tts/say" -> 12
                [] c = "tcp://localhost:1883" -> 20
                [] OTHER -> 1

\* Bytes of UTF-8 of one atom.
Width(c) == IF c = "zh" THEN 3 ELSE Letters(c)

\* Code points of one atom.
Chars(c) == Letters(c)

R(c, n) == [c |-> c, n |-> n]

RECURSIVE ByteLen(_)
\* Go's len(string): the number of bytes.
ByteLen(s) == IF s = <<>> THEN 0
              ELSE Head(s).n * Width(Head(s).c) + ByteLen(Tail(s))

IsSpace(e) == e.c = "sp"

RECURSIVE TrimLeft(_)
TrimLeft(s) == IF s # <<>> /\ IsSpace(Head(s)) THEN TrimLeft(Tail(s)) ELSE s

RECURSIVE TrimRight(_)
TrimRight(s) == IF s # <<>> /\ IsSpace(s[Len(s)])
                THEN TrimRight(SubSeq(s, 1, Len(s) - 1)) ELSE s

\* strings.TrimSpace
TrimSpace(s) == TrimRight(TrimLeft(s))

(***************************************************************************)
(* encoding/json, as far as f and loadConfigFromFile use it.  The grammar  *)
(* read here: a value is a string, a number (digits), null or an object    *)
(* of members "key": value; white space may surround every token.  The     *)
(* punctuation atoms "lb" {  "rb" }  "q" quote  "colon"  "comma" always    *)
(* have n = 1.                                                             *)
(***************************************************************************)
RECURSIVE SkipWS(_)
SkipWS(s) == IF s # <<>> /\ IsSpace(Head(s)) THEN SkipWS(Tail(s)) ELSE s

RECURSIVE ScanString(_, _)
\* The characters of a string literal up to its closing quote.
ScanString(s, acc) ==
    IF s = <<>> THEN [ok |-> FALSE, str |-> acc, rest |-> <<>>]
    ELSE IF Head(s).c = "q" THEN [ok |-> TRUE, str |-> acc, rest |-> Tail(s)]
    ELSE ScanString(Tail(s), Append(acc, Head(s)))

RECURSIVE SkipDigits(_)
SkipDigits(s) == IF s # <<>> /\ Head(s).c = "1" THEN SkipDigits(Tail(s)) ELSE s

SyntaxError == [ok |-> FALSE, kind |-> "none", str |-> <<>>, mem |-> <<>>,
                rest |-> <<>>]

Parsed(kind, str, mem, rest) ==
    [ok |-> TRUE, kind |-> kind, str |-> str, mem |-> mem, rest |-> rest]

RECURSIVE ParseValue(_)
RECURSIVE ParseMembers(_, _)
\* One JSON value at the front of s0: its kind, a string's characters, an
\* object's members in order, and what follows it.
ParseValue(s0) ==
    LET s == SkipWS(s0) IN
    IF s = <<>> THEN SyntaxError
    ELSE CASE Head(s).c = "q" ->
                  LET r == ScanString(Tail(s), <<>>) IN
                  IF r.ok THEN Parsed("string", r.str, <<>>, r.rest)
                  ELSE SyntaxError
           [] Head(s).c = "1" -> Parsed("number", <<>>, <<>>, SkipDigits(s))
           [] Head(s).c = "null" /\ Head(s).n = 1 ->
                  Parsed("null", <<>>, <<>>, Tail(s))
           [] Head(s).c = "lb" ->
                  LET t == SkipWS(Tail(s)) IN
                  IF t # <<>> /\ Head(t).c = "rb"
                  THEN Parsed("object", <<>>, <<>>, Tail(t))
                  ELSE ParseMembers(t, <<>>)
           [] OTHER -> SyntaxError

ParseMembers(s0, acc) ==
    LET s == SkipWS(s0) IN
    IF s = <<>> \/ Head(s).c # "q" THEN SyntaxError
    ELSE LET k == ScanString(Tail(s), <<>>)
             t == SkipWS(k.rest)
         IN  IF ~k.ok \/ t = <<>> \/ Head(t).c # "colon" THEN SyntaxError
             ELSE LET v == ParseValue(Tail(t))
                      u == SkipWS(v.rest)
                      more == Append(acc, [key |-> k.str, kind |-> v.kind,
                                           str |-> v.str])
                  IN  IF ~v.ok \/ u = <<>> THEN SyntaxError
                      ELSE IF Head(u).c = "rb"
                           THEN Parsed("object", <<>>, more, Tail(u))
                      ELSE IF Head(u).c = "comma"
                           THEN ParseMembers(Tail(u), more)
                      ELSE SyntaxError

\* json.Unmarshal first validates the whole input (checkValid): one value,
\* nothing but white space after it.
ParseDoc(p) ==
    LET v == ParseValue(p) IN
    IF v.ok /\ SkipWS(v.rest) = <<>> THEN v ELSE SyntaxError

\* A key names the field tagged json:"text" on an exact match or, failing
\* that, on a case-insensitive one.
KeyMatchesExact(k) == k = <<R("text", 1)>>

KeyMatches(k) == KeyMatchesExact(k) \/ k = <<R("TEXT", 1)>>

RECURSIVE DecodeMembers(_, _)
\* The decoder walks the members in order: a string sets Text, null leaves
\* it, any other value is an UnmarshalTypeError that is remembered while
\* the walk goes on.
DecodeMembers(mem, j) ==
    IF mem = <<>> THEN j
    ELSE LET m == Head(mem) IN
         DecodeMembers(Tail(mem),
            IF ~KeyMatches(m.key) THEN j
            ELSE CASE m.kind = "string" -> [j EXCEPT !.Text = m.str]
                   [] m.kind = "null" -> j
                   [] OTHER -> [j EXCEPT !.err = TRUE])

\* json.Unmarshal([]byte(payload), &j) with j struct{ Text string
\* `json:"text"` }: the error and j.Text afterwards.
Unmarshal(payload) ==
    LET v == ParseDoc(payload)
        j == [err |-> FALSE, Text |-> <<>>]
    IN  IF ~v.ok THEN [j EXCEPT !.err = TRUE]
        ELSE CASE v.kind = "object" -> DecodeMembers(v.mem, j)
               [] v.kind = "null" -> j
               [] OTHER -> [j EXCEPT !.err = TRUE]

(***************************************************************************)
(* The handler f, up to the dispatch.                                      *)
(***************************************************************************)
\* The mutated selection: j.Text is used whenever it is set, the error of
\* the decoder is not looked at.
SelectText_M(payload) ==
    LET j == Unmarshal(payload) IN
    IF j.Text # <<>> THEN j.Text ELSE payload

\* Lines 28-34 / 326-332.
SelectText(payload) ==
    LET j == Unmarshal(payload) IN
    IF ~j.err /\ j.Text # <<>> THEN j.Text ELSE payload

\* The mutated validation: the length is not checked.
Rejected_M(text) == text = <<>>

\* Lines 37 / 335: text == "" || len(text) > 500.
Rejected(text) == text = <<>> \/ ByteLen(text) > MaxTextLen

(***************************************************************************)
(* Configuration: type Config, loadConfigFromFile and the merge in main.   *)
(***************************************************************************)
Word(w) == <<R(w, 1)>>

ZeroConfig == [Broker |-> <<>>, Topic |-> <<>>, Username |-> <<>>,
               Password |-> <<>>]

\* Lines 190-193 / 427-430.
Defaults == [ZeroConfig EXCEPT !.Broker = Word("tcp://localhost:1883"),
                               !.Topic = Word("home/tts/say")]

RECURSIVE Lookup(_, _, _)
\* raw[key] of the decoded map: the last member of that name wins.
Lookup(mem, key, found) ==
    IF mem = <<>> THEN found
    ELSE Lookup(Tail(mem), key,
                IF Head(mem).key = key
                THEN [ok |-> TRUE, kind |-> Head(mem).kind, str |-> Head(mem).str]
                ELSE found)

\* if v, ok := raw[key]; ok { if s, ok := v.(string); ok { field = s } }
StringField(mem, key) ==
    LET v == Lookup(mem, key, [ok |-> FALSE, kind |-> "none", str |-> <<>>])
    IN  IF v.ok /\ v.kind = "string" THEN v.str ELSE <<>>

LoadFailed == [err |-> TRUE, cfg |-> ZeroConfig]

\* The mutated loader: a file that does not parse is not an error, and
\* yields the members read from its front.
loadConfigFromFile_M(f) ==
    IF f.state # "present" THEN LoadFailed
    ELSE LET v == ParseValue(f.data)
             m == IF v.ok /\ v.kind = "object" THEN v.mem ELSE <<>>
         IN  [err |-> FALSE,
              cfg |-> [Broker |-> StringField(m, Word("broker")),
                       Topic |-> StringField(m, Word("topic")),
                       Username |-> StringField(m, Word("username")),
                       Password |-> StringField(m, Word("password"))]]

\* Lines 112-145 / 368-401.  os.ReadFile fails on a file that is absent or
\* unreadable; json.Unmarshal into map[string]interface{} fails on a syntax
\* error and on a value that is not an object (null gives the nil map).
loadConfigFromFile(f) ==
    IF f.state # "present" THEN LoadFailed
    ELSE LET v == ParseDoc(f.data) IN
         IF ~v.ok \/ v.kind \notin {"object", "null"} THEN LoadFailed
         ELSE [err |-> FALSE,
               cfg |-> [Broker |-> StringField(v.mem, Word("broker")),
                        Topic |-> StringField(v.mem, Word("topic")),
                        Username |-> StringField(v.mem, Word("username")),
                        Password |-> StringField(v.mem, Word("password"))]]

\* if over.X != "" { cfg.X = over.X }, for the four fields.
Merge(base, over) ==
    [Broker |-> IF over.Broker # <<>> THEN over.Broker ELSE base.Broker,
     Topic |-> IF over.Topic # <<>> THEN over.Topic ELSE base.Topic,
     Username |-> IF over.Username # <<>> THEN over.Username ELSE base.Username,
     Password |-> IF over.Password # <<>> THEN over.Password ELSE base.Password]

FlagConfig(fl) == [Broker |-> fl.broker, Topic |-> fl.topic,
                   Username |-> fl.username, Password |-> fl.password]

\* The mutated merge of the auto-detect variant: flags applied after the file.
ResolveAuto_M(fl, f) ==
    IF f.state # "absent"
    THEN LET r == loadConfigFromFile(f) IN
         IF r.err THEN [fatal |-> TRUE, cfg |-> Defaults]
         ELSE [fatal |-> FALSE,
               cfg |-> Merge(Merge(Defaults, r.cfg), FlagConfig(fl))]
    ELSE [fatal |-> FALSE, cfg |-> Merge(Defaults, FlagConfig(fl))]

\* Lines 189-237: os.Stat finds config.json (f.state is not "absent"), the
\* file is loaded and the flags are skipped; otherwise the flags apply.
ResolveAuto(fl, f) ==
    IF f.state # "absent"
    THEN LET r == loadConfigFromFile(f) IN
         IF r.err THEN [fatal |-> TRUE, cfg |-> Defaults]
         ELSE [fatal |-> FALSE, cfg |-> Merge(Defaults, r.cfg)]
    ELSE [fatal |-> FALSE, cfg |-> Merge(Defaults, FlagConfig(fl))]

\* The mutated merge of the --config variant: the file applied after the flags.
ResolveExplicit_M(fl, f) ==
    IF fl.config # <<>>
    THEN LET r == loadConfigFromFile(f) IN
         IF r.err THEN [fatal |-> TRUE, cfg |-> Defaults]
         ELSE [fatal |-> FALSE,
               cfg |-> Merge(Merge(Defaults, FlagConfig(fl)), r.cfg)]
    ELSE [fatal |-> FALSE, cfg |-> Merge(Defaults, FlagConfig(fl))]

\* Lines 426-465: defaults, then the file named by --config, then the flags.
ResolveExplicit(fl, f) ==
    IF fl.config # <<>>
    THEN LET r == loadConfigFromFile(f) IN
         IF r.err THEN [fatal |-> TRUE, cfg |-> Defaults]
         ELSE [fatal |-> FALSE,
               cfg |-> Merge(Merge(Defaults, r.cfg), FlagConfig(fl))]
    ELSE [fatal |-> FALSE, cfg |-> Merge(Defaults, FlagConfig(fl))]

(***************************************************************************)
(* The process.  main runs start -> configured -> connectWait ->           *)
(* subscribeWait -> listening (select {}), or exits.                       *)
(***************************************************************************)
Alive == pc # "exited"

MsgIds == 1..MaxMsgs

Epochs == 0..MaxLoss

NoHook == [st |-> "none", timer |-> 0]

NoTask == [text |-> <<>>, speak |-> "none", timer |-> 0, outcome |-> "none"]

Idle == [busy |-> FALSE, id |-> 0]

\* log.Fatal / os.Exit: the process ends at once, goroutines included.
Exit(by) == /\ pc' = "exited"
            /\ exitBy' = by

Max(a, b) == IF a > b THEN a ELSE b

\* Lines 147-237 / 403-465: the log file, the flags, --help, the merge.
ResolveConfig ==
    /\ pc = "start"
    /\ \E logOk \in BOOLEAN :
         LET r == IF variant = "auto" THEN ResolveAuto(flags, file)
                  ELSE ResolveExplicit(flags, file)
         IN  IF variant = "auto" /\ ~logOk
             THEN Exit("logfile") /\ UNCHANGED cfg
             ELSE IF flags.help
             THEN Exit("help") /\ UNCHANGED cfg
             ELSE IF r.fatal
             THEN Exit("config") /\ cfg' = r.cfg
             ELSE pc' = "configured" /\ cfg' = r.cfg /\ UNCHANGED exitBy
    /\ UNCHANGED <<variant, flags, file, conn, subscribed, token, mainTimer,
                   hooks, epoch, hist, pool, budget, msgs, inbox, cb, tasks,
                   handled, spoken>>

\* Lines 240-270 / 467-483: the client options and client.Connect().
MainConnect ==
    /\ pc = "configured"
    /\ pc' = "connectWait"
    /\ token' = "pending"
    /\ mainTimer' = IF variant = "auto" THEN ConnectWait ELSE 0
    /\ hist' = [hist EXCEPT !.connects = @ + 1]
    /\ UNCHANGED <<variant, flags, file, cfg, exitBy, conn, subscribed, hooks,
                   epoch, pool, budget, msgs, inbox, cb, tasks, handled,
                   spoken>>

\* The transport completes the connect token.  On success the auto variant's
\* OnConnect handler (line 247) is started on a goroutine of its own.
ConnAck ==
    /\ Alive /\ pc = "connectWait" /\ token = "pending"
    /\ \E ok \in BOOLEAN :
         IF ok
         THEN /\ token' = "ok"
              /\ conn' = "up"
              /\ hooks' = IF variant = "auto"
                          THEN [hooks EXCEPT ![0] = [st |-> "pending", timer |-> 0]]
                          ELSE hooks
         ELSE /\ token' = "err"
              /\ UNCHANGED <<conn, hooks>>
    /\ UNCHANGED <<variant, flags, file, cfg, pc, exitBy, subscribed,
                   mainTimer, epoch, hist, pool, budget, msgs, inbox, cb,
                   tasks, handled, spoken>>

\* Lines 272-279 / 483-487: the connect token is complete; an error is
\* fatal, otherwise client.Subscribe(cfg.Topic, 1, f) is sent.
MainConnectDone ==
    /\ pc = "connectWait" /\ token \in {"ok", "err"}
    /\ IF token = "err"
       THEN Exit("connect") /\ UNCHANGED <<token, mainTimer, hist>>
       ELSE /\ pc' = "subscribeWait"
            /\ token' = "pending"
            /\ mainTimer' = IF variant = "auto" THEN ConnectWait ELSE 0
            /\ hist' = [hist EXCEPT !.subscribes = @ + 1]
            /\ UNCHANGED exitBy
    /\ UNCHANGED <<variant, flags, file, cfg, conn, subscribed, hooks, epoch,
                   pool, budget, msgs, inbox, cb, tasks, handled, spoken>>

\* Lines 272-274 and 280-282: token.WaitTimeout(10 s) returned false.  The
\* explicit variant waits with token.Wait(), which has no timeout.
MainWaitTimeout ==
    /\ variant = "auto"
    /\ pc \in {"connectWait", "subscribeWait"}
    /\ token = "pending" /\ mainTimer = 0
    /\ Exit(IF pc = "connectWait" THEN "connect-timeout" ELSE "subscribe-timeout")
    /\ UNCHANGED <<variant, flags, file, cfg, conn, subscribed, token,
                   mainTimer, hooks, epoch, hist, pool, budget, msgs, inbox,
                   cb, tasks, handled, spoken>>

\* The broker answers main's SUBSCRIBE, or the transport fails it.
SubAck ==
    /\ Alive /\ pc = "subscribeWait" /\ token = "pending"
    /\ \E ok \in BOOLEAN :
         IF ok
         THEN conn = "up" /\ token' = "ok" /\ subscribed' = TRUE
         ELSE token' = "err" /\ UNCHANGED subscribed
    /\ UNCHANGED <<variant, flags, file, cfg, pc, exitBy, conn, mainTimer,
                   hooks, epoch, hist, pool, budget, msgs, inbox, cb, tasks,
                   handled, spoken>>

\* Lines 283-296 / 487-500: an error is fatal, otherwise main logs and
\* blocks in select {}.
MainSubscribeDone ==
    /\ pc = "subscribeWait" /\ token \in {"ok", "err"}
    /\ IF token = "err"
       THEN Exit("subscribe") /\ UNCHANGED hist
       ELSE /\ pc' = "listening"
            /\ hist' = [hist EXCEPT !.started = TRUE]
            /\ UNCHANGED exitBy
    /\ token' = "none"
    /\ mainTimer' = 0
    /\ UNCHANGED <<variant, flags, file, cfg, conn, subscribed, hooks, epoch,
                   pool, budget, msgs, inbox, cb, tasks, handled, spoken>>

(***************************************************************************)
(* The transport's connection and the auto variant's OnConnect handler     *)
(* (lines 247-254), which runs once per established connection.            *)
(***************************************************************************)
\* Line 249: the handler sends client.Subscribe(cfg.Topic, 1, f) and starts
\* token.WaitTimeout(5 s).
HookStart(e) ==
    /\ Alive /\ hooks[e].st = "pending"
    /\ hooks' = [hooks EXCEPT ![e] = [st |-> "waiting", timer |-> ResubscribeWait]]
    /\ hist' = [hist EXCEPT !.subscribes = @ + 1]
    /\ UNCHANGED <<variant, flags, file, cfg, pc, exitBy, conn, subscribed,
                   token, mainTimer, epoch, pool, budget, msgs, inbox, cb,
                   tasks, handled, spoken>>

\* The broker answers the handler's SUBSCRIBE, or the transport fails it.
HookAck(e) ==
    /\ Alive /\ hooks[e].st = "waiting"
    /\ \E ok \in BOOLEAN :
         IF ok
         THEN /\ conn = "up"
              /\ subscribed' = TRUE
              /\ hooks' = [hooks EXCEPT ![e] = [st |-> "ok", timer |-> 0]]
         ELSE /\ hooks' = [hooks EXCEPT ![e] = [st |-> "err", timer |-> 0]]
              /\ UNCHANGED subscribed
    /\ UNCHANGED <<variant, flags, file, cfg, pc, exitBy, conn, token,
                   mainTimer, epoch, hist, pool, budget, msgs, inbox, cb,
                   tasks, handled, spoken>>

\* Lines 250-253: an error or a timeout of the token is log.Fatalf.
HookDone(e) ==
    /\ Alive
    /\ \/ hooks[e].st \in {"ok", "err"}
       \/ hooks[e].st = "waiting" /\ hooks[e].timer = 0
    /\ IF hooks[e].st = "ok"
       THEN /\ hooks' = [hooks EXCEPT ![e] = [st |-> "done", timer |-> 0]]
            /\ UNCHANGED <<pc, exitBy>>
       ELSE /\ hooks' = [hooks EXCEPT ![e] = [st |-> "fatal", timer |-> 0]]
            /\ Exit("resubscribe")
    /\ UNCHANGED <<variant, flags, file, cfg, conn, subscribed, token,
                   mainTimer, epoch, hist, pool, budget, msgs, inbox, cb,
                   tasks, handled, spoken>>

\* The connection drops.  The auto variant's ConnectionLost handler (line
\* 257) only logs.  The broker may or may not keep the subscription.
ConnLost ==
    /\ Alive /\ conn = "up" /\ epoch < MaxLoss
    /\ conn' = "lost"
    /\ \E keep \in BOOLEAN : subscribed' = (subscribed /\ keep)
    /\ UNCHANGED <<variant, flags, file, cfg, pc, exitBy, token, mainTimer,
                   hooks, epoch, hist, pool, budget, msgs, inbox, cb, tasks,
                   handled, spoken>>

\* SetAutoReconnect(true): the transport connects again; the auto variant's
\* OnConnect handler is started for the new connection.
Reconnect ==
    /\ Alive /\ conn = "lost"
    /\ conn' = "up"
    /\ epoch' = epoch + 1
    /\ hooks' = IF variant = "auto"
                THEN [hooks EXCEPT ![epoch + 1] = [st |-> "pending", timer |-> 0]]
                ELSE hooks
    /\ UNCHANGED <<variant, flags, file, cfg, pc, exitBy, subscribed, token,
                   mainTimer, hist, pool, budget, msgs, inbox, cb, tasks,
                   handled, spoken>>

\* No OnConnect handler is about to subscribe or waiting for its token.
HooksQuiet == \A e \in Epochs : hooks[e].st \in {"none", "done"}

\* A publisher sends a payload to the topic; the broker forwards it to this
\* client only over a live connection with a subscription.
Publish ==
    /\ Alive /\ budget > 0 /\ conn # "none"
    /\ \E p \in pool :
         LET got == conn = "up" /\ subscribed IN
         /\ msgs' = Append(msgs, [payload |-> p, delivered |-> got,
                                  epoch |-> epoch,
                                  quiet |-> conn = "up" /\ HooksQuiet])
         /\ inbox' = IF got THEN Append(inbox, Len(msgs) + 1) ELSE inbox
    /\ budget' = budget - 1
    /\ UNCHANGED <<variant, flags, file, cfg, pc, exitBy, conn, subscribed,
                   token, mainTimer, hooks, epoch, hist, pool, cb, tasks,
                   handled, spoken>>

(***************************************************************************)
(* The message handler f and speakText.                                    *)
(***************************************************************************)
\* The mutated dispatch: f waits for speakText in both variants.
CallbackBlocks_M(v) == TRUE

\* Lines 44-64 start a goroutine and return; lines 340-344 call speakText
\* in the callback itself.
CallbackBlocks(v) == v = "explicit"

\* Lines 24-67 / 322-345.  The transport hands the messages of a connection
\* to f one at a time, in order, from one goroutine.
f ==
    /\ Alive /\ inbox # <<>> /\ ~cb.busy
    /\ LET id == Head(inbox)
           text == TrimSpace(SelectText(msgs[id].payload))
       IN  /\ inbox' = Tail(inbox)
           /\ handled' = [handled EXCEPT ![id] =
                            [seen |-> TRUE, text |-> text,
                             accepted |-> ~Rejected(text)]]
           /\ IF Rejected(text)
              THEN UNCHANGED <<cb, tasks, spoken>>
              ELSE IF CallbackBlocks(variant)
              THEN \E hang \in BOOLEAN :
                     /\ cb' = [busy |-> TRUE, id |-> id]
                     /\ spoken' = spoken \cup {<<id, text>>}
                     /\ tasks' = [tasks EXCEPT ![id] =
                                    [text |-> text,
                                     speak |-> IF hang THEN "hung" ELSE "running",
                                     timer |-> 0, outcome |-> "waiting"]]
              ELSE /\ tasks' = [tasks EXCEPT ![id] =
                                  [text |-> text, speak |-> "pending",
                                   timer |-> SpeakTimeout, outcome |-> "waiting"]]
                   /\ UNCHANGED <<cb, spoken>>
    /\ UNCHANGED <<variant, flags, file, cfg, pc, exitBy, conn, subscribed,
                   token, mainTimer, hooks, epoch, hist, pool, budget, msgs>>

\* Lines 49-51: the inner goroutine calls speakText(t); the platform call
\* may never return.
SpeakStart(i) ==
    /\ Alive /\ tasks[i].speak = "pending"
    /\ \E hang \in BOOLEAN :
         tasks' = [tasks EXCEPT ![i].speak = IF hang THEN "hung" ELSE "running"]
    /\ spoken' = spoken \cup {<<i, tasks[i].text>>}
    /\ UNCHANGED <<variant, flags, file, cfg, pc, exitBy, conn, subscribed,
                   token, mainTimer, hooks, epoch, hist, pool, budget, msgs,
                   inbox, cb, handled>>

\* Lines 69-110 / 347-366: speakText returns nil or an error.  In the auto
\* variant the result goes into the buffered channel done; in the explicit
\* variant f logs it (lines 340-344) and returns.
SpeakReturn(i) ==
    /\ Alive /\ tasks[i].speak = "running"
    /\ \E failed \in BOOLEAN :
         IF cb.busy /\ cb.id = i
         THEN /\ tasks' = [tasks EXCEPT
                             ![i].speak = IF failed THEN "err" ELSE "ok",
                             ![i].outcome = IF failed THEN "error" ELSE "done"]
              /\ cb' = Idle
         ELSE /\ tasks' = [tasks EXCEPT
                             ![i].speak = IF failed THEN "err" ELSE "ok"]
              /\ UNCHANGED cb
    /\ UNCHANGED <<variant, flags, file, cfg, pc, exitBy, conn, subscribed,
                   token, mainTimer, hooks, epoch, hist, pool, budget, msgs,
                   inbox, handled, spoken>>

\* Lines 54-59: select receives from done and logs the result.
TaskReceive(i) ==
    /\ Alive /\ ~(cb.busy /\ cb.id = i)
    /\ tasks[i].outcome = "waiting" /\ tasks[i].speak \in {"ok", "err"}
    /\ tasks' = [tasks EXCEPT
                   ![i].outcome = IF tasks[i].speak = "ok" THEN "done" ELSE "error",
                   ![i].timer = 0]
    /\ UNCHANGED <<variant, flags, file, cfg, pc, exitBy, conn, subscribed,
                   token, mainTimer, hooks, epoch, hist, pool, budget, msgs,
                   inbox, cb, handled, spoken>>

\* The mutated timeout branch: it logs a completion.
TaskTimeout_M(i) ==
    /\ Alive /\ ~(cb.busy /\ cb.id = i)
    /\ tasks[i].outcome = "waiting" /\ tasks[i].timer = 0
    /\ tasks' = [tasks EXCEPT ![i].outcome = "done"]
    /\ UNCHANGED <<variant, flags, file, cfg, pc, exitBy, conn, subscribed,
                   token, mainTimer, hooks, epoch, hist, pool, budget, msgs,
                   inbox, cb, handled, spoken>>

\* Lines 60-63: select receives from ctx.Done() and logs the timeout; the
\* goroutine ends, speakText is left running.
TaskTimeout(i) ==
    /\ Alive /\ ~(cb.busy /\ cb.id = i)
    /\ tasks[i].outcome = "waiting" /\ tasks[i].timer = 0
    /\ tasks' = [tasks EXCEPT ![i].outcome = "timeout"]
    /\ UNCHANGED <<variant, flags, file, cfg, pc, exitBy, conn, subscribed,
                   token, mainTimer, hooks, epoch, hist, pool, budget, msgs,
                   inbox, cb, handled, spoken>>

(***************************************************************************)
(* Time: TickStep seconds pass for every running timer.                    *)
(***************************************************************************)
MainWaiting == /\ variant = "auto"
               /\ pc \in {"connectWait", "subscribeWait"}
               /\ token = "pending"

TaskWaiting(i) == /\ tasks[i].outcome = "waiting"
                  /\ ~(cb.busy /\ cb.id = i)

Tick ==
    /\ Alive
    /\ \/ MainWaiting /\ mainTimer > 0
       \/ \E e \in Epochs : hooks[e].st = "waiting" /\ hooks[e].timer > 0
       \/ \E i \in MsgIds : TaskWaiting(i) /\ tasks[i].timer > 0
    /\ mainTimer' = IF MainWaiting THEN Max(0, mainTimer - TickStep)
                    ELSE mainTimer
    /\ hooks' = [e \in Epochs |->
                   IF hooks[e].st = "waiting"
                   THEN [hooks[e] EXCEPT !.timer = Max(0, @ - TickStep)]
                   ELSE hooks[e]]
    /\ tasks' = [i \in MsgIds |->
                   IF TaskWaiting(i)
                   THEN [tasks[i] EXCEPT !.timer = Max(0, @ - TickStep)]
                   ELSE tasks[i]]
    /\ UNCHANGED <<variant, flags, file, cfg, pc, exitBy, conn, subscribed,
                   token, epoch, hist, pool, budget, msgs, inbox, cb, handled,
                   spoken>>

(***************************************************************************)
(* Inputs.                                                                 *)
(***************************************************************************)
SeqsUpTo(S, n) == UNION {[1..k -> S] : k \in 0..n}

\* The runs texts are made of: lengths around the limit, in one-byte and in
\* three-byte characters, and white space.
Runs == {R("a", 1), R("a", MaxTextLen - 1), R("a", MaxTextLen),
         R("a", MaxTextLen + 1), R("zh", 1), R("zh", MaxTextLen \div 3),
         R("zh", MaxTextLen \div 3 + 1), R("sp", 1)}

Texts == SeqsUpTo(Runs, MaxStrRuns)

\* Texts, also with white space around them.
Strings == Texts \cup {<<R("sp", 1)>> \o t \o <<R("sp", 1)>> : t \in Texts}

Quoted(s) == <<R("q", 1)>> \o s \o <<R("q", 1)>>

Member(k, v) == Quoted(k) \o <<R("colon", 1)>> \o v

Object(ms) == <<R("lb", 1)>> \o ms \o <<R("rb", 1)>>

Comma == <<R("comma", 1)>>

Sp == <<R("sp", 1)>>

\* The payload {"text":"<s>"}.
JsonText(s) == Object(Member(Word("text"), Quoted(s)))

\* The payloads a publisher may send: raw text, the documented object, and
\* objects and documents of other shapes.
Payloads ==
    UNION {{s,
            JsonText(s),
            Sp \o JsonText(s) \o Sp,
            <<R("lb", 1)>> \o Sp \o Quoted(Word("text")) \o Sp
                \o <<R("colon", 1)>> \o Sp \o Quoted(s) \o Sp \o <<R("rb", 1)>>,
            Object(Member(Word("TEXT"), Quoted(s))),
            Object(Member(Word("a"), Quoted(s))),
            Object(Member(Word("text"), Quoted(s)) \o Comma
                     \o Member(Word("text"), Word("1"))),
            Object(Member(Word("text"), Quoted(s)) \o Comma
                     \o Member(Word("text"), Word("null"))),
            Object(Member(Word("text"), Quoted(s)) \o Comma
                     \o Member(Word("text"), Quoted(<<>>))),
            Object(Member(Word("a"), Word("1")) \o Comma
                     \o Member(Word("text"), Quoted(s))),
            <<R("lb", 1)>> \o Member(Word("text"), Quoted(s)),
            JsonText(s) \o Word("a"),
            Quoted(s)} : s \in Strings}
    \cup {Word("1"), Word("null"), Object(<<>>),
          Object(Member(Word("text"), Word("1"))),
          Object(Member(Word("text"), Word("null")))}

\* Two payloads for the runs that are about the process, not about text.
SmallPool == {Word("a"), Sp}

NoFlags == [broker |-> <<>>, topic |-> <<>>, username |-> <<>>,
            password |-> <<>>, config |-> <<>>, help |-> FALSE]

\* A flag is unset ("") or set.
FlagValues == {<<>>, Word("zh")}

\* In a file a key is missing, or holds a number, "" or a string.
FileValues == {<<>>, Word("1"), Quoted(<<>>), Quoted(Word("a"))}

FileMember(k, v) == IF v = <<>> THEN <<>> ELSE Member(Word(k), v) \o Comma

\* Files: objects of the four keys (and a key main does not know), null,
\* a document that is no object, an empty file and a truncated object.
FileData ==
    {Object(FileMember("broker", b) \o FileMember("topic", t)
              \o FileMember("username", u) \o FileMember("password", w)
              \o Member(Word("a"), Word("1"))) :
        b \in FileValues, t \in FileValues, u \in FileValues, w \in FileValues}
    \cup {Word("null"), Quoted(Word("a")), <<>>,
          Object(Member(Word("broker"), Word("null"))),
          <<R("lb", 1)>> \o Member(Word("broker"), Quoted(Word("a"))),
          Object(Member(Word("broker"), Quoted(Word("a")))) \o Word("a")}

NoFile == [state |-> "absent", data |-> <<>>]

Files == {NoFile, [state |-> "unreadable", data |-> <<>>]}
         \cup {[state |-> "present", data |-> d] : d \in FileData}

InitProcess ==
    /\ variant \in {"auto", "explicit"}
    /\ cfg = ZeroConfig
    /\ pc = "start"
    /\ exitBy = ""
    /\ conn = "none"
    /\ subscribed = FALSE
    /\ token = "none"
    /\ mainTimer = 0
    /\ hooks = [e \in Epochs |-> NoHook]
    /\ epoch = 0
    /\ hist = [connects |-> 0, subscribes |-> 0, started |-> FALSE]
    /\ msgs = <<>>
    /\ inbox = <<>>
    /\ cb = Idle
    /\ tasks = [i \in MsgIds |-> NoTask]
    /\ handled = [i \in MsgIds |-> [seen |-> FALSE, text |-> <<>>,
                                    accepted |-> FALSE]]
    /\ spoken = {}

\* The program started without flags and without a configuration file.
Init ==
    /\ InitProcess
    /\ flags = NoFlags
    /\ file = NoFile
    /\ pool = {Word("a")}
    /\ budget = 1

\* The program started with any command line over any file; no message is
\* published.  The auto-detect variant has no --config flag.
InitCfg ==
    /\ InitProcess
    /\ flags \in [broker : FlagValues, topic : FlagValues,
                  username : FlagValues, password : FlagValues,
                  config : {<<>>, Word("cfg.json")}, help : BOOLEAN]
    /\ variant = "auto" => flags.config = <<>>
    /\ file \in Files
    /\ pool = {}
    /\ budget = 0

\* The program after a successful startup with the default configuration:
\* main is in select {}, the first OnConnect handler has returned.
Listening ==
    /\ variant \in {"auto", "explicit"}
    /\ flags = NoFlags
    /\ file = NoFile
    /\ cfg = Defaults
    /\ pc = "listening"
    /\ exitBy = ""
    /\ conn = "up"
    /\ subscribed = TRUE
    /\ token = "none"
    /\ mainTimer = 0
    /\ hooks = [e \in Epochs |->
                  IF e = 0 /\ variant = "auto"
                  THEN [st |-> "done", timer |-> 0] ELSE NoHook]
    /\ epoch = 0
    /\ hist = [connects |-> 1,
               subscribes |-> IF variant = "auto" THEN 2 ELSE 1,
               started |-> TRUE]
    /\ msgs = <<>>
    /\ inbox = <<>>
    /\ cb = Idle
    /\ tasks = [i \in MsgIds |-> NoTask]
    /\ handled = [i \in MsgIds |-> [seen |-> FALSE, text |-> <<>>,
                                    accepted |-> FALSE]]
    /\ spoken = {}

\* One message of any payload is about to arrive.
InitText ==
    /\ Listening
    /\ \E p \in Payloads : pool = {p}
    /\ budget = 1

\* Several messages are about to arrive.
InitDispatch ==
    /\ Listening
    /\ pool = SmallPool
    /\ budget = MaxMsgs

Startup ==
    \/ ResolveConfig
    \/ MainConnect
    \/ ConnAck
    \/ MainConnectDone
    \/ MainWaitTimeout
    \/ SubAck
    \/ MainSubscribeDone
    \/ \E e \in Epochs : HookStart(e)
    \/ \E e \in Epochs : HookAck(e)
    \/ \E e \in Epochs : HookDone(e)
    \/ Tick

Dispatch ==
    \/ Publish
    \/ f
    \/ \E i \in MsgIds : SpeakStart(i)
    \/ \E i \in MsgIds : SpeakReturn(i)
    \/ \E i \in MsgIds : TaskReceive(i)
    \/ \E i \in MsgIds : TaskTimeout(i)
    \/ Tick

Next ==
    \/ ResolveConfig
    \/ MainConnect
    \/ ConnAck
    \/ MainConnectDone
    \/ MainWaitTimeout
    \/ SubAck
    \/ MainSubscribeDone
    \/ \E e \in Epochs : HookStart(e)
    \/ \E e \in Epochs : HookAck(e)
    \/ \E e \in Epochs : HookDone(e)
    \/ ConnLost
    \/ Reconnect
    \/ Publish
    \/ f
    \/ \E i \in MsgIds : SpeakStart(i)
    \/ \E i \in MsgIds : SpeakReturn(i)
    \/ \E i \in MsgIds : TaskReceive(i)
    \/ \E i \in MsgIds : TaskTimeout(i)
    \/ Tick

\* What the Go scheduler and the clock guarantee: every goroutine that can
\* run does run, and time passes.  Nothing is assumed of the broker, the
\* publishers or the speech engine.
Fairness ==
    /\ WF_vars(ResolveConfig)
    /\ WF_vars(MainConnect)
    /\ WF_vars(MainConnectDone)
    /\ WF_vars(MainWaitTimeout)
    /\ WF_vars(MainSubscribeDone)
    /\ \A e \in Epochs : WF_vars(HookStart(e)) /\ WF_vars(HookDone(e))
    /\ WF_vars(f)
    /\ \A i \in MsgIds : /\ WF_vars(SpeakStart(i))
                         /\ WF_vars(TaskReceive(i))
                         /\ WF_vars(TaskTimeout(i))
    /\ WF_vars(Tick)

Spec == Init /\ [][Next]_vars

FairSpec == Init /\ [][Next]_vars /\ Fairness

SpecCfg == InitCfg /\ [][Startup]_vars

SpecText == InitText /\ [][Dispatch]_vars

SpecDispatch == InitDispatch /\ [][Dispatch]_vars

FairDispatch == InitDispatch /\ [][Dispatch]_vars /\ Fairness

(***************************************************************************)
(* Properties.                                                             *)
(***************************************************************************)
RECURSIVE CharLen(_)
\* The length of a text in characters (code points).
CharLen(s) == IF s = <<>> THEN 0
              ELSE Head(s).n * Chars(Head(s).c) + CharLen(Tail(s))

\* The messages f has been called with.
Seen == {i \in MsgIds : handled[i].seen}

SpokenIds == {s[1] : s \in spoken}

\* C1: a message whose selected text is empty after trimming, or longer
\* than 500 characters, is rejected: f starts no dispatch for it and
\* speakText is never called for it, in either variant.
C1_RejectedNeverSpoken ==
    \A i \in Seen :
        (handled[i].text = <<>> \/ CharLen(handled[i].text) > MaxTextLen)
            => /\ ~handled[i].accepted
               /\ tasks[i] = NoTask
               /\ i \notin SpokenIds
               /\ ~(cb.busy /\ cb.id = i)

\* A message longer than 500 characters has been handled and dropped.
C1_Witness ==
    \E i \in Seen : /\ CharLen(handled[i].text) > MaxTextLen
                    /\ ~handled[i].accepted
                    /\ inbox = <<>>

\* C2: for a payload {"text": s} in which s has more than 0 and at most 500
\* code points, the speech text is exactly s trimmed: f selects it and,
\* unless nothing is left of it, dispatches speakText with it and nothing
\* else.
C2_JsonTextIsSpoken ==
    \A i \in Seen : \A s \in Strings :
        (/\ msgs[i].payload = JsonText(s)
         /\ CharLen(s) > 0
         /\ CharLen(s) <= MaxTextLen)
            => /\ handled[i].text = TrimSpace(s)
               /\ TrimSpace(s) # <<>> =>
                     /\ handled[i].accepted
                     /\ tasks[i].text = TrimSpace(s)
                     /\ \A c \in spoken : c[1] = i => c[2] = TrimSpace(s)

Last(S) == CHOOSE k \in S : \A j \in S : j <= k

\* The payload is a JSON object in which the members named text all hold a
\* string or null, and the last string is not empty.  The name is compared
\* exactly, or without regard to the case of its letters.
HasTextField(p, exact) ==
    LET v == ParseDoc(p)
        named == {k \in 1..Len(v.mem) :
                     \/ v.mem[k].key = Word("text")
                     \/ ~exact /\ v.mem[k].key = Word("TEXT")}
        strs == {k \in named : v.mem[k].kind = "string"}
    IN  /\ v.ok
        /\ v.kind = "object"
        /\ \A k \in named : v.mem[k].kind \in {"string", "null"}
        /\ strs # {}
        /\ v.mem[Last(strs)].str # <<>>

\* C3, as claimed: for a payload that is no JSON object with a non-empty
\* string in a member named text, the selected text is the raw payload,
\* trimmed.
C3_RawUnlessTextField ==
    \A i \in Seen :
        ~HasTextField(msgs[i].payload, TRUE)
            => handled[i].text = TrimSpace(msgs[i].payload)

\* C3, amended: the same, the member's name compared without regard to the
\* case of its letters.  It covers the object whose decoding fails after a
\* member named text has been read.
C3_RawUnlessTextFieldAnyCase ==
    \A i \in Seen :
        ~HasTextField(msgs[i].payload, FALSE)
            => handled[i].text = TrimSpace(msgs[i].payload)

\* An object with a string and then a number in members named text was
\* handled as raw text.
C3_Witness ==
    \E i \in Seen :
        LET v == ParseDoc(msgs[i].payload) IN
        /\ v.ok /\ v.kind = "object"
        /\ \E k \in 1..Len(v.mem) : /\ v.mem[k].key = Word("text")
                                    /\ v.mem[k].kind = "string"
                                    /\ v.mem[k].str # <<>>
        /\ ~HasTextField(msgs[i].payload, FALSE)
        /\ handled[i].text = TrimSpace(msgs[i].payload)
        /\ handled[i].accepted

\* main got past the flags and the configuration file.
Configured == pc # "start" /\ exitBy \notin {"logfile", "help", "config"}

\* What a file of content v (parsed) sets a key to: the string of the last
\* member of that name in a file that is one JSON object, "" otherwise.
Sets(v, key) ==
    LET named == {k \in 1..Len(v.mem) : v.mem[k].key = Word(key)}
    IN  IF /\ file.state = "present"
           /\ v.ok
           /\ named # {}
           /\ v.mem[Last(named)].kind = "string"
        THEN v.mem[Last(named)].str
        ELSE <<>>

FileSets(key) == Sets(ParseDoc(file.data), key)

\* First the non-empty one of a and b, else the default.
FirstOf(a, b, default) ==
    IF a # <<>> THEN a ELSE IF b # <<>> THEN b ELSE default

\* C4: in the --config variant every field of the effective configuration
\* is the flag if the flag is set, else the file's value if the file was
\* given and sets the field to a non-empty string, else the default.
C4_FlagOverFileOverDefault ==
    (variant = "explicit" /\ Configured) =>
        LET v == IF flags.config # <<>> THEN ParseDoc(file.data)
                 ELSE SyntaxError
        IN  /\ cfg.Broker = FirstOf(flags.broker, Sets(v, "broker"),
                                    Word("tcp://localhost:1883"))
            /\ cfg.Topic = FirstOf(flags.topic, Sets(v, "topic"),
                                   Word("home/tts/say"))
            /\ cfg.Username = FirstOf(flags.username, Sets(v, "username"), <<>>)
            /\ cfg.Password = FirstOf(flags.password, Sets(v, "password"), <<>>)

\* The three sources in one configuration: the broker from the flag over a
\* file that sets it, the topic from the file, no user name anywhere.
C4_Witness ==
    /\ variant = "explicit" /\ pc = "configured" /\ flags.config # <<>>
    /\ flags.broker # <<>> /\ FileSets("broker") # <<>>
    /\ FileSets("broker") # flags.broker /\ cfg.Broker = flags.broker
    /\ flags.topic = <<>> /\ FileSets("topic") # <<>>
    /\ cfg.Topic = FileSets("topic")
    /\ flags.username = <<>> /\ FileSets("username") = <<>>
    /\ cfg.Username = <<>>
    /\ flags.password = <<>> /\ cfg.Password = FileSets("password")

\* C5: in the auto-detect variant, once config.json exists and loads, no
\* flag has any effect: every field is the file's non-empty string or the
\* default.  Without config.json the flags override the defaults.
C5_FileSilencesFlags ==
    (variant = "auto" /\ Configured) =>
        IF file.state # "absent"
        THEN LET v == ParseDoc(file.data) IN
             /\ cfg.Broker = FirstOf(Sets(v, "broker"), <<>>,
                                     Word("tcp://localhost:1883"))
             /\ cfg.Topic = FirstOf(Sets(v, "topic"), <<>>,
                                    Word("home/tts/say"))
             /\ cfg.Username = Sets(v, "username")
             /\ cfg.Password = Sets(v, "password")
        ELSE /\ cfg.Broker = FirstOf(flags.broker, <<>>,
                                     Word("tcp://localhost:1883"))
             /\ cfg.Topic = FirstOf(flags.topic, <<>>, Word("home/tts/say"))
             /\ cfg.Username = flags.username
             /\ cfg.Password = flags.password

\* Every flag is set, config.json sets only the broker: the broker is the
\* file's, the topic the default, user name and password are empty.
C5_Witness ==
    /\ variant = "auto" /\ pc = "configured" /\ file.state = "present"
    /\ flags.broker # <<>> /\ flags.topic # <<>>
    /\ flags.username # <<>> /\ flags.password # <<>>
    /\ FileSets("broker") # <<>> /\ FileSets("topic") = <<>>
    /\ cfg = [Defaults EXCEPT !.Broker = FileSets("broker")]
    /\ cfg.Broker # flags.broker

\* main reads the file: config.json is there, or --config names one.
FileConsulted == \/ variant = "auto" /\ file.state # "absent"
                 \/ variant = "explicit" /\ flags.config # <<>>

\* The file cannot be read, is not JSON, or is JSON but no object.
FileBad == LET v == ParseDoc(file.data) IN
           \/ file.state # "present"
           \/ ~v.ok
           \/ v.kind \notin {"object", "null"}

\* C6: when the load of the configuration file fails the process ends
\* before any connection attempt: no connect and no subscribe is ever sent
\* and nothing read from the file is in the configuration.
C6_BadFileEndsBeforeConnect ==
    (pc # "start" /\ FileConsulted /\ FileBad) =>
        /\ pc = "exited"
        /\ exitBy \in {"logfile", "help", "config"}
        /\ hist.connects = 0
        /\ hist.subscribes = 0
        /\ conn = "none"
        /\ cfg \in {ZeroConfig, Defaults}

\* A file that breaks off after "broker":"a" ended the process.
C6_Witness ==
    /\ pc = "exited" /\ exitBy = "config"
    /\ file.state = "present"
    /\ ~ParseDoc(file.data).ok
    /\ ParseValue(file.data).ok = FALSE
    /\ Len(file.data) > 1
    /\ file.data[1].c = "lb"
    /\ cfg = Defaults

\* The synthesis call of message i was made on a goroutine and never returns.
Hung(i) == variant = "auto" /\ tasks[i].speak = "hung"

\* C7: in the async variant, when speakText never returns for a message,
\* the callback is not held up, the dispatch goroutine logs neither a
\* completion nor an error, it logs the timeout only after the 30 seconds
\* have passed, and it does log it and end.
C7_HungSpeakTimesOut ==
    /\ [](\A i \in MsgIds :
            Hung(i) => /\ ~cb.busy
                       /\ tasks[i].outcome \in {"waiting", "timeout"}
                       /\ tasks[i].outcome = "timeout" => tasks[i].timer = 0)
    /\ \A i \in MsgIds : Hung(i) ~> (tasks[i].outcome = "timeout")

\* A dispatch goroutine gave up on a call that never returns, and f has
\* taken the next message meanwhile.
C7_Witness ==
    \E i \in MsgIds : /\ Hung(i)
                      /\ tasks[i].outcome = "timeout"
                      /\ \E k \in Seen : k > i

\* C8, as claimed: every startup reaches the listening state or the end of
\* the process; main never waits for an acknowledgment forever.
C8_StartupSettles == <>(pc = "listening" \/ pc = "exited")

\* C9, as claimed: after a successful startup a reconnect never ends the
\* process, and a message published over the new connection, no
\* re-subscription being under way, reaches the dispatcher.
C9_ReconnectResubscribes ==
    hist.started =>
        /\ \A e \in Epochs : e > 0 => hooks[e].st # "fatal"
        /\ \A k \in 1..Len(msgs) :
              (msgs[k].epoch > 0 /\ msgs[k].quiet) => msgs[k].delivered

\* The calls of speakText that have not returned.
InFlight == {i \in MsgIds : tasks[i].speak \in {"running", "hung"}}

\* C10, as claimed: a message never waits in the transport because the
\* callback is busy with the synthesis of an earlier one.
C10_NoMessageWaits == inbox # <<>> => ~cb.busy

\* C10, amended: in the async variant f never holds the callback, every
\* accepted message has a dispatch of its own as soon as f has seen it; in
\* the sync variant f runs speakText inside the callback, so at most one
\* synthesis is in flight and it is that of the message f is busy with.
C10_AsyncUnlimitedSyncSerial ==
    /\ variant = "auto" =>
          /\ ~cb.busy
          /\ \A i \in Seen : handled[i].accepted => tasks[i].speak # "none"
    /\ variant = "explicit" =>
          /\ Cardinality(InFlight) <= 1
          /\ \A i \in InFlight : cb.busy /\ cb.id = i

\* Two calls of speakText are in flight at once.
C10_Witness ==
    /\ variant = "auto"
    /\ Cardinality({i \in MsgIds : tasks[i].speak = "running"}) >= 2
    /\ \A i \in MsgIds : tasks[i].speak = "running" => tasks[i].outcome = "waiting"

====
